---- MODULE Spec2Model ----
(***************************************************************************)
(* Model of hypothesis_protobuf/module_conversion.py: the conversion of    *)
(* protobuf modules (schema containers) into an environment that maps      *)
(* every message class and enum wrapper to a hypothesis strategy.          *)
(*                                                                         *)
(* Descriptors come from the protobuf library and strategies from          *)
(* hypothesis; both are represented here by what the code reads of them:   *)
(* a descriptor by its full_name and the attributes the code accesses, a   *)
(* strategy by the tree of combinators that built it and by the set of     *)
(* values it can draw.                                                     *)
(***************************************************************************)
EXTENDS Naturals, Sequences, FiniteSets, TLC

VARIABLES modules, overrides, pc, pass, idx, env, module_loaded, next_id, example

vars == <<modules, overrides, pc, pass, idx, env, module_loaded, next_id, example>>

\* Longest list of modules handed to modules_to_strategies.
MaxModules == 2

Range(s) == {s[i] : i \in DOMAIN s}

(***************************************************************************)
(* The schemas the model compiles.  A module has enum types and top-level  *)
(* message types; a message has enum types, nested message types, fields   *)
(* and the two options the code reads (deprecated, map_entry).             *)
(***************************************************************************)
ModuleNames == {"im", "dep", "loop", "consts", "deep4", "deep5"}

ModuleDescriptor ==
  [m \in ModuleNames |->
     CASE m = "im"     -> [enum_types |-> <<"im.Client">>,
                           message_types |-> <<"im.Msg", "im.User">>]
       [] m = "dep"    -> [enum_types |-> <<>>,
                           message_types |-> <<"dep.DepMessage", "dep.Old">>]
       [] m = "loop"   -> [enum_types |-> <<>>,
                           message_types |-> <<"loop.Loop", "loop.A", "loop.B">>]
       [] m = "consts" -> [enum_types |-> <<"consts.Color">>,
                           message_types |-> <<>>]
       [] m = "deep4"  -> [enum_types |-> <<>>,
                           message_types |-> <<"deep4.L1">>]
       [] m = "deep5"  -> [enum_types |-> <<>>,
                           message_types |-> <<"deep5.L1">>]]

MessageNames ==
  {"im.Msg", "im.Msg.AttrEntry", "im.Msg.Meta", "im.User",
   "dep.DepMessage", "dep.Old", "loop.Loop", "loop.A", "loop.B",
   "deep4.L1", "deep4.L1.L2", "deep4.L1.L2.L3", "deep4.L1.L2.L3.L4",
   "deep5.L1", "deep5.L1.L2", "deep5.L1.L2.L3", "deep5.L1.L2.L3.L4",
   "deep5.L1.L2.L3.L4.L5"}

EnumNames == {"im.Client", "im.Msg.Meta.Kind", "consts.Color"}

Msg(enums, nested, fields, deprecated, map_entry) ==
  [enum_types |-> enums, nested_types |-> nested, fields |-> fields,
   deprecated |-> deprecated, map_entry |-> map_entry]

MessageDescriptor ==
  [m \in MessageNames |->
     CASE m = "im.Msg" ->
            Msg(<<>>, <<"im.Msg.AttrEntry", "im.Msg.Meta">>,
                <<"im.Msg.sender", "im.Msg.client", "im.Msg.tags",
                  "im.Msg.attrs", "im.Msg.meta">>, FALSE, FALSE)
       [] m = "im.Msg.AttrEntry" ->
            Msg(<<>>, <<>>, <<"im.Msg.AttrEntry.key", "im.Msg.AttrEntry.value">>,
                FALSE, TRUE)
       [] m = "im.Msg.Meta" ->
            Msg(<<"im.Msg.Meta.Kind">>, <<>>,
                <<"im.Msg.Meta.kind", "im.Msg.Meta.latency">>, FALSE, FALSE)
       [] m = "im.User" ->
            Msg(<<>>, <<>>, <<"im.User.name">>, FALSE, FALSE)
       [] m = "dep.DepMessage" ->
            Msg(<<>>, <<>>, <<"dep.DepMessage.user", "dep.DepMessage.old">>,
                FALSE, FALSE)
       [] m = "dep.Old" ->
            Msg(<<>>, <<>>, <<"dep.Old.legacy">>, TRUE, FALSE)
       [] m = "loop.Loop" ->
            Msg(<<>>, <<>>, <<"loop.Loop.next">>, FALSE, FALSE)
       [] m = "loop.A" -> Msg(<<>>, <<>>, <<"loop.A.b">>, FALSE, FALSE)
       [] m = "loop.B" -> Msg(<<>>, <<>>, <<"loop.B.a">>, FALSE, FALSE)
       [] m = "deep4.L1" -> Msg(<<>>, <<"deep4.L1.L2">>, <<>>, FALSE, FALSE)
       [] m = "deep4.L1.L2" -> Msg(<<>>, <<"deep4.L1.L2.L3">>, <<>>, FALSE, FALSE)
       [] m = "deep4.L1.L2.L3" ->
            Msg(<<>>, <<"deep4.L1.L2.L3.L4">>, <<>>, FALSE, FALSE)
       [] m = "deep4.L1.L2.L3.L4" -> Msg(<<>>, <<>>, <<>>, FALSE, FALSE)
       [] m = "deep5.L1" -> Msg(<<>>, <<"deep5.L1.L2">>, <<>>, FALSE, FALSE)
       [] m = "deep5.L1.L2" -> Msg(<<>>, <<"deep5.L1.L2.L3">>, <<>>, FALSE, FALSE)
       [] m = "deep5.L1.L2.L3" ->
            Msg(<<>>, <<"deep5.L1.L2.L3.L4">>, <<>>, FALSE, FALSE)
       [] m = "deep5.L1.L2.L3.L4" ->
            Msg(<<>>, <<"deep5.L1.L2.L3.L4.L5">>, <<>>, FALSE, FALSE)
       [] m = "deep5.L1.L2.L3.L4.L5" -> Msg(<<>>, <<>>, <<>>, FALSE, FALSE)]

FieldNames ==
  {"im.Msg.sender", "im.Msg.client", "im.Msg.tags", "im.Msg.attrs",
   "im.Msg.meta", "im.Msg.AttrEntry.key", "im.Msg.AttrEntry.value",
   "im.Msg.Meta.kind", "im.Msg.Meta.latency", "im.User.name",
   "dep.DepMessage.user", "dep.DepMessage.old", "dep.Old.legacy",
   "loop.Loop.next", "loop.A.b", "loop.B.a"}

Fld(type, label, ref) == [type |-> type, label |-> label, ref |-> ref]

\* type is a scalar kind, "enum", "message", or "group" (a kind the code
\* does not handle); ref is the full_name of enum_type / message_type.
FieldDescriptor ==
  [f \in FieldNames |->
     CASE f = "im.Msg.sender" -> Fld("message", "optional", "im.User")
       [] f = "im.Msg.client" -> Fld("enum", "optional", "im.Client")
       [] f = "im.Msg.tags"   -> Fld("string", "repeated", "")
       [] f = "im.Msg.attrs"  -> Fld("message", "repeated", "im.Msg.AttrEntry")
       [] f = "im.Msg.meta"   -> Fld("message", "required", "im.Msg.Meta")
       [] f = "im.Msg.AttrEntry.key"   -> Fld("string", "optional", "")
       [] f = "im.Msg.AttrEntry.value" -> Fld("int32", "optional", "")
       [] f = "im.Msg.Meta.kind"    -> Fld("enum", "required", "im.Msg.Meta.Kind")
       [] f = "im.Msg.Meta.latency" -> Fld("double", "optional", "")
       [] f = "im.User.name" -> Fld("string", "optional", "")
       [] f = "dep.DepMessage.user" -> Fld("message", "required", "im.User")
       [] f = "dep.DepMessage.old"  -> Fld("message", "optional", "dep.Old")
       [] f = "dep.Old.legacy" -> Fld("group", "optional", "")
       [] f = "loop.Loop.next" -> Fld("message", "optional", "loop.Loop")
       [] f = "loop.A.b" -> Fld("message", "optional", "loop.B")
       [] f = "loop.B.a" -> Fld("message", "repeated", "loop.A")]

(***************************************************************************)
(* Strategies.  A strategy is the tree of hypothesis combinators that      *)
(* built it; Values gives the values one draw can produce.  A value is a   *)
(* pair <<sort, detail>>; None is the absence sentinel.                    *)
(***************************************************************************)
Strategy(kind, arg, subs) == [kind |-> kind, arg |-> arg, subs |-> subs]

None == <<"None", "">>

st_none == Strategy("none", "", <<>>)
st_just(x) == Strategy("just", x, <<>>)
st_sampled_from(enum) == Strategy("sampled_from", enum, <<>>)
st_one_of(args) == Strategy("one_of", "", args)
st_lists(s) == Strategy("lists", "", <<s>>)
st_dictionaries(k, v) == Strategy("dictionaries", "", <<k, v>>)
st_filter(s, pred) == Strategy("filter", pred, <<s>>)
st_deferred(message) == Strategy("deferred", message, <<>>)

RECURSIVE Values(_)
Values(s) ==
  CASE s.kind = "scalar"       -> {<<s.arg, "">>}
    [] s.kind = "none"         -> {None}
    [] s.kind = "just"         -> {<<"just", s.arg>>}
    [] s.kind = "sampled_from" -> {<<"enum", s.arg>>}
    [] s.kind = "one_of"       -> UNION {Values(s.subs[i]) : i \in DOMAIN s.subs}
    [] s.kind = "lists"        -> {<<"list", "">>}
    [] s.kind = "dictionaries" -> {<<"dict", "">>}
    [] s.kind = "filter"       -> {v \in Values(s.subs[1]) : v # None}
    [] s.kind = "deferred"     -> {<<"message", s.arg>>}
    [] s.kind = "mapped"       -> {<<"mapped", s.arg>>}
    [] OTHER                   -> {}

\* The kinds SCALAR_MAPPINGS has a strategy for.
ScalarKinds ==
  {"double", "float", "int32", "int64", "uint32", "uint64", "sint32",
   "sint64", "fixed32", "fixed64", "sfixed32", "sfixed64", "bool",
   "string", "bytes"}

SCALAR_MAPPINGS == [k \in ScalarKinds |-> Strategy("scalar", k, <<>>)]

LABEL_MAPPINGS(label, strategy) ==
  CASE label = "optional" -> st_one_of(<<strategy>>)
    [] label = "repeated" -> st_lists(strategy)
    [] label = "required" -> strategy

MAX_LOAD_DEPTH == 5

(***************************************************************************)
(* Overrides: a map from a field's or enum's full_name to either a literal *)
(* strategy or a callable from strategy to strategy.                       *)
(***************************************************************************)
OvLiteral(key) == [callable |-> FALSE, strategy |-> st_just(key)]
OvCallable(key) == [callable |-> TRUE, strategy |-> st_none]

\* What calling a callable override on a strategy returns.
ApplyOverride(key, strategy) == Strategy("mapped", key, <<strategy>>)

\* No overrides keyword (None) and an empty dict are both falsy.
NoOverrides == [k \in {} |-> OvCallable("")]

(***************************************************************************)
(* The outcome of a strategy-generating call: status is "ok", or the       *)
(* exception that left it ("LookupError", "Exception"); calls records      *)
(* every entry into the overridable wrapper made during the call (the      *)
(* overrides it was given, whether it invoked the decorated function, the  *)
(* environment lookups made under it); lookups are the descriptors         *)
(* searched for in the environment.                                        *)
(***************************************************************************)
NoStrategy == Strategy("error", "", <<>>)

Res(status, strategy, calls, lookups) ==
  [status |-> status, strategy |-> strategy, calls |-> calls, lookups |-> lookups]

Call(entity, passed, invoked, lookups, status, strategy) ==
  [entity |-> entity, overrides |-> passed, invoked |-> invoked,
   lookups |-> lookups, status |-> status, strategy |-> strategy]

\* A wrapper that takes every override for a callable: it invokes the
\* decorated function and passes its result to the override.
wrapper_always_callable(entity, passed, raw) ==
  LET invoke == Res(raw.status, raw.strategy,
                    raw.calls \cup {Call(entity, passed, TRUE, raw.lookups,
                                         raw.status, raw.strategy)},
                    raw.lookups)
  IN IF DOMAIN passed = {} THEN invoke
     ELSE IF entity \notin DOMAIN passed THEN invoke
     ELSE IF raw.status # "ok" THEN invoke
     ELSE LET s == ApplyOverride(entity, raw.strategy)
          IN Res("ok", s,
                 raw.calls \cup {Call(entity, passed, TRUE, raw.lookups, "ok", s)},
                 raw.lookups)

\* overridable(f): raw is the outcome f(*args) has if it is invoked.
wrapper(entity, passed, raw) ==
  LET invoke == Res(raw.status, raw.strategy,
                    raw.calls \cup {Call(entity, passed, TRUE, raw.lookups,
                                         raw.status, raw.strategy)},
                    raw.lookups)
  IN IF DOMAIN passed = {} THEN invoke
     ELSE IF entity \notin DOMAIN passed THEN invoke
     ELSE IF ~passed[entity].callable
       THEN Res("ok", passed[entity].strategy,
                {Call(entity, passed, FALSE, {}, "ok", passed[entity].strategy)},
                {})
     ELSE IF raw.status # "ok" THEN invoke
     ELSE LET s == ApplyOverride(entity, raw.strategy)
          IN Res("ok", s,
                 raw.calls \cup {Call(entity, passed, TRUE, raw.lookups, "ok", s)},
                 raw.lookups)

enum_to_strategy(enum, passed) ==
  wrapper(enum, passed, Res("ok", st_sampled_from(enum), {}, {}))

\* The environment is a dict in insertion order: entries [key, name,
\* strategy], key the object used as dict key, name its DESCRIPTOR.full_name.
find_strategy_in_env(descriptor, e) ==
  IF \E i \in DOMAIN e : e[i].name = descriptor
    THEN LET i == CHOOSE j \in DOMAIN e :
                    /\ e[j].name = descriptor
                    /\ \A k \in DOMAIN e : e[k].name = descriptor => j <= k
         IN Res("ok", e[i].strategy, {}, {descriptor})
    ELSE Res("LookupError", NoStrategy, {}, {descriptor})

apply_modifier(strategy, field) ==
  LABEL_MAPPINGS(FieldDescriptor[field].label, strategy)

non_null(x) == x # None

RECURSIVE field_to_strategy(_, _, _)

\* The decorated function's body.  The two recursive calls for a map entry
\* pass no overrides keyword.
field_to_strategy_body(field, e) ==
  LET fd == FieldDescriptor[field]
  IN IF fd.type \in DOMAIN SCALAR_MAPPINGS
       THEN Res("ok", apply_modifier(SCALAR_MAPPINGS[fd.type], field), {}, {})
     ELSE IF fd.type = "enum"
       THEN LET r == find_strategy_in_env(fd.ref, e)
            IN IF r.status = "ok"
                 THEN Res("ok", apply_modifier(r.strategy, field), {}, r.lookups)
                 ELSE r
     ELSE IF fd.type = "message"
       THEN IF MessageDescriptor[fd.ref].deprecated
              THEN Res("ok", st_none, {}, {})
            ELSE IF MessageDescriptor[fd.ref].map_entry
              THEN LET kv == MessageDescriptor[fd.ref].fields
                       k == field_to_strategy(kv[1], e, NoOverrides)
                       v == field_to_strategy(kv[2], e, NoOverrides)
                   IN IF k.status # "ok" THEN k
                      ELSE IF v.status # "ok"
                        THEN Res(v.status, NoStrategy, k.calls \cup v.calls,
                                 k.lookups \cup v.lookups)
                      ELSE Res("ok",
                               st_dictionaries(st_filter(k.strategy, "non_null"),
                                               st_filter(v.strategy, "non_null")),
                               k.calls \cup v.calls, k.lookups \cup v.lookups)
            ELSE LET r == find_strategy_in_env(fd.ref, e)
                 IN IF r.status = "ok"
                      THEN Res("ok", apply_modifier(r.strategy, field), {}, r.lookups)
                      ELSE r
     ELSE Res("Exception", NoStrategy, {}, {})

field_to_strategy(field, e, passed) ==
  wrapper(field, passed, field_to_strategy_body(field, e))

\* buildable(message_obj): the keyword arguments the message constructor
\* receives, as pairs <<field name, value>>.
builder(kwargs) == {kv \in kwargs : kv[2] # None}

(***************************************************************************)
(* The body of the lambda given to st.deferred: the field strategies of    *)
(* st.builds, compiled in field order; the first exception ends it.        *)
(***************************************************************************)
RECURSIVE builds_fields(_, _, _, _, _)
builds_fields(fields, i, e, passed, acc) ==
  IF i > Len(fields) THEN acc
  ELSE LET r == field_to_strategy(fields[i], e, passed)
       IN IF r.status # "ok"
            THEN [status |-> r.status, strategies |-> <<>>,
                  calls |-> acc.calls \cup r.calls]
            ELSE builds_fields(fields, i + 1, e, passed,
                               [status |-> "ok",
                                strategies |-> Append(acc.strategies, r.strategy),
                                calls |-> acc.calls \cup r.calls])

deferred_definition(message_obj, e, passed) ==
  builds_fields(MessageDescriptor[message_obj].fields, 1, e, passed,
                [status |-> "ok", strategies |-> <<>>, calls |-> {}])

\* A message_to_strategy without st.deferred: st.builds over the field
\* strategies, compiled when the message is loaded.
message_to_strategy_eager(message_obj, e, passed) ==
  LET d == deferred_definition(message_obj, e, passed)
  IN [status |-> d.status,
      strategy |-> IF d.status = "ok"
                     THEN Strategy("builds", message_obj, d.strategies)
                     ELSE NoStrategy]

\* message_to_strategy returns st.deferred(...) without calling the lambda.
message_to_strategy(message_obj, e, passed) ==
  [status |-> "ok", strategy |-> st_deferred(message_obj)]

(***************************************************************************)
(* load_module_into_env.  The environment and the count of enum wrapper    *)
(* objects created so far are threaded through a record                    *)
(*   [env, next_id, status, loaded, ret]                                   *)
(* status is "ok" or the exception leaving the call, loaded the local set  *)
(* of loaded sibling messages, ret the value returned (is_loaded).         *)
(***************************************************************************)
ClassKey(message_obj) == [cls |-> message_obj, id |-> 0]
WrapperKey(id) == [cls |-> "EnumTypeWrapper", id |-> id]

\* env[key] = strategy on a dict: an equal key keeps its place and gets the
\* new value, a new key is added at the end.
env_set(e, key, name, strategy) ==
  IF \E i \in DOMAIN e : e[i].key = key
    THEN [i \in DOMAIN e |->
            IF e[i].key = key THEN [e[i] EXCEPT !.strategy = strategy] ELSE e[i]]
    ELSE Append(e, [key |-> key, name |-> name, strategy |-> strategy])

enum_types_of(parent_obj) ==
  IF parent_obj \in ModuleNames
    THEN ModuleDescriptor[parent_obj].enum_types
    ELSE MessageDescriptor[parent_obj].enum_types

nested_types_of(parent_obj) ==
  IF parent_obj \in ModuleNames
    THEN ModuleDescriptor[parent_obj].message_types
    ELSE MessageDescriptor[parent_obj].nested_types

\* for enum_type in enum_types: a new EnumTypeWrapper is the key.
RECURSIVE load_enum_types(_, _, _, _)
load_enum_types(enum_types, i, st, passed) ==
  IF i > Len(enum_types) THEN st
  ELSE load_enum_types(enum_types, i + 1,
         [st EXCEPT !.env = env_set(st.env, WrapperKey(st.next_id + 1),
                                    enum_types[i],
                                    enum_to_strategy(enum_types[i], passed).strategy),
                    !.next_id = st.next_id + 1],
         passed)

\* A handler that catches every exception (except Exception).
caught_any(status) == status # "ok"

\* except LookupError: the exceptions the handler catches.
caught(status) == status = "LookupError"

RECURSIVE load_module_into_env(_, _, _, _)

\* The try statement for one message of nested_types.
load_message(message, st, passed, depth) ==
  LET r == load_module_into_env(message, st, passed, depth + 1)
  IN IF r.status # "ok"
       THEN IF caught(r.status)
              THEN [r EXCEPT !.status = "ok", !.loaded = st.loaded]
              ELSE [r EXCEPT !.loaded = st.loaded]
     ELSE LET s == message_to_strategy(message, r.env, passed)
          IN IF s.status # "ok"
               THEN IF caught(s.status)
                      THEN [r EXCEPT !.loaded = st.loaded]
                      ELSE [r EXCEPT !.status = s.status, !.loaded = st.loaded]
             ELSE [r EXCEPT !.env = env_set(r.env, ClassKey(message), message,
                                            s.strategy),
                            !.loaded = st.loaded \cup {message}]

\* for message in nested_types: (one pass)
RECURSIVE load_messages(_, _, _, _, _)
load_messages(nested_types, i, st, passed, depth) ==
  IF i > Len(nested_types) THEN st
  ELSE IF nested_types[i] \in st.loaded
    THEN load_messages(nested_types, i + 1, st, passed, depth)
  ELSE LET r == load_message(nested_types[i], st, passed, depth)
       IN IF r.status # "ok" THEN r
          ELSE load_messages(nested_types, i + 1, r, passed, depth)

\* for __ in range(total_messages): remaining passes are still to run.
RECURSIVE load_passes(_, _, _, _, _)
load_passes(nested_types, remaining, st, passed, depth) ==
  IF remaining = 0 THEN [st EXCEPT !.ret = FALSE]
  ELSE LET r == load_messages(nested_types, 1, st, passed, depth)
       IN IF r.status # "ok" THEN r
          ELSE IF \A i \in DOMAIN nested_types : nested_types[i] \in r.loaded
            THEN [r EXCEPT !.ret = TRUE]
          ELSE load_passes(nested_types, remaining - 1, r, passed, depth)

\* A depth check that is off by one (depth >= MAX_LOAD_DEPTH).
load_module_into_env_off_by_one(parent_obj, st, passed, depth) ==
  IF depth >= MAX_LOAD_DEPTH
    THEN [st EXCEPT !.status = "Exception", !.ret = FALSE]
    ELSE LET st1 == load_enum_types(enum_types_of(parent_obj), 1, st, passed)
             nested_types == nested_types_of(parent_obj)
         IN load_passes(nested_types, Len(nested_types),
                        [st1 EXCEPT !.loaded = {}, !.ret = FALSE], passed, depth)

load_module_into_env(parent_obj, st, passed, depth) ==
  IF depth > MAX_LOAD_DEPTH
    THEN [st EXCEPT !.status = "Exception", !.ret = FALSE]
    ELSE LET st1 == load_enum_types(enum_types_of(parent_obj), 1, st, passed)
             nested_types == nested_types_of(parent_obj)
         IN load_passes(nested_types, Len(nested_types),
                        [st1 EXCEPT !.loaded = {}, !.ret = FALSE], passed, depth)

(***************************************************************************)
(* modules_to_strategies, one action per iteration of its inner loop, and  *)
(* the evaluation of a returned strategy (Example).                        *)
(***************************************************************************)
KeysOverridable ==
  {"im.Msg.client", "im.Client", "im.Msg.AttrEntry.key", "im.User.name",
   "dep.DepMessage.user"}

\* The overrides a caller may supply: none, or one entry, literal or callable.
OverrideChoices ==
  {NoOverrides}
    \cup {[k \in {key} |-> OvLiteral(key)] : key \in KeysOverridable}
    \cup {[k \in {key} |-> OvCallable(key)] : key \in {"im.User.name", "im.Client"}}

ModuleLists == UNION {[1..n -> ModuleNames] : n \in 0..MaxModules}

NoExample ==
  [message |-> "", status |-> "none", strategies |-> <<>>, calls |-> {},
   drawn |-> {}, kwargs |-> {}]

Init ==
  /\ modules \in ModuleLists
  /\ overrides \in OverrideChoices
  /\ pc = "loop"
  /\ pass = 1
  /\ idx = 1
  /\ env = <<>>
  /\ module_loaded = [m \in {} |-> FALSE]
  /\ next_id = 0
  /\ example = NoExample

total_modules == Len(modules)

\* The next iteration of "for module in modules" inside "for __ in range".
Advance ==
  IF idx < total_modules
    THEN /\ idx' = idx + 1
         /\ pass' = pass
    ELSE /\ idx' = 1
         /\ pass' = pass + 1

\* A test of the dict instead of the module's entry (if module_loaded:).
module_loaded_any(module) == DOMAIN module_loaded # {}

\* module_loaded.get(module)
module_loaded_get(module) ==
  IF module \in DOMAIN module_loaded THEN module_loaded[module] ELSE FALSE

\* if module_loaded.get(module): continue
SkipModule ==
  /\ pc = "loop"
  /\ pass <= total_modules
  /\ module_loaded_get(modules[idx])
  /\ Advance
  /\ UNCHANGED <<modules, overrides, pc, env, module_loaded, next_id, example>>

\* module_loaded[module] = load_module_into_env(module, env, overrides)
LoadModule ==
  /\ pc = "loop"
  /\ pass <= total_modules
  /\ ~module_loaded_get(modules[idx])
  /\ LET r == load_module_into_env(modules[idx],
                 [env |-> env, next_id |-> next_id, status |-> "ok",
                  loaded |-> {}, ret |-> FALSE],
                 overrides, 1)
     IN /\ env' = r.env
        /\ next_id' = r.next_id
        /\ IF r.status = "ok"
             THEN /\ module_loaded' =
                       [m \in DOMAIN module_loaded \cup {modules[idx]} |->
                          IF m = modules[idx] THEN r.ret ELSE module_loaded[m]]
                  /\ pc' = "loop"
                  /\ Advance
             ELSE /\ pc' = "raised"
                  /\ UNCHANGED <<module_loaded, pass, idx>>
  /\ UNCHANGED <<modules, overrides, example>>

\* return env
Return ==
  /\ pc = "loop"
  /\ pass > total_modules
  /\ pc' = "done"
  /\ UNCHANGED <<modules, overrides, pass, idx, env, module_loaded, next_id, example>>

\* One draw from each of the strategies, as pairs <<field name, value>>.
RECURSIVE Draws(_, _, _)
Draws(fields, strategies, i) ==
  IF i > Len(fields) THEN {{}}
  ELSE {d \cup {<<fields[i], v>>} :
          d \in Draws(fields, strategies, i + 1), v \in Values(strategies[i])}

\* strategy.example() on a message's entry of the returned environment: the
\* deferred definition is evaluated, then st.builds draws every field and
\* calls the builder.
Example ==
  /\ pc = "done"
  /\ \E i \in DOMAIN env :
       /\ env[i].strategy.kind = "deferred"
       /\ LET message == env[i].strategy.arg
              d == deferred_definition(message, env, overrides)
          IN IF d.status # "ok"
               THEN example' = [message |-> message, status |-> d.status,
                                strategies |-> <<>>, calls |-> d.calls,
                                drawn |-> {}, kwargs |-> {}]
               ELSE \E drawn \in Draws(MessageDescriptor[message].fields,
                                       d.strategies, 1) :
                      example' = [message |-> message, status |-> "ok",
                                  strategies |-> d.strategies, calls |-> d.calls,
                                  drawn |-> drawn, kwargs |-> builder(drawn)]
  /\ UNCHANGED <<modules, overrides, pc, pass, idx, env, module_loaded, next_id>>

Next == SkipModule \/ LoadModule \/ Return \/ Example

Spec == Init /\ [][Next]_vars

(***************************************************************************)
(* Properties.                                                             *)
(***************************************************************************)
Max(S) == CHOOSE x \in S : \A y \in S : y <= x

\* handle_message_type: the message and enum types of a message type and of
\* everything nested in it.
RECURSIVE handle_message_type(_)
handle_message_type(cont_obj) ==
  {cont_obj} \cup Range(MessageDescriptor[cont_obj].enum_types)
    \cup UNION {handle_message_type(n) :
                  n \in Range(MessageDescriptor[cont_obj].nested_types)}

\* Every type a module declares, at every nesting level.
TypesOf(module) ==
  Range(ModuleDescriptor[module].enum_types)
    \cup UNION {handle_message_type(m) :
                  m \in Range(ModuleDescriptor[module].message_types)}

\* Levels of message nesting at and below a message (1: nothing nested).
RECURSIVE Height(_)
Height(message) ==
  1 + Max({0} \cup {Height(n) : n \in Range(MessageDescriptor[message].nested_types)})

\* The loader enters a message at nesting level k with depth k + 1.
WithinDepth(module) ==
  \A m \in Range(ModuleDescriptor[module].message_types) :
    Height(m) + 1 <= MAX_LOAD_DEPTH

EnvNames == {env[i].name : i \in DOMAIN env}

Supplied == Range(modules)

\* The message types a message's fields refer to.
MessageRefs(message) ==
  {FieldDescriptor[f].ref :
     f \in {g \in Range(MessageDescriptor[message].fields) :
              FieldDescriptor[g].type = "message"}}

RECURSIVE ReachableIn(_, _)
ReachableIn(S, n) ==
  IF n = 0 THEN S
  ELSE ReachableIn(S \cup UNION {MessageRefs(m) : m \in S}, n - 1)

\* The message types that refer to themselves, directly or through others.
SelfReferencing ==
  {m \in MessageNames :
     m \in ReachableIn(MessageRefs(m), Cardinality(MessageNames))}

IsLiteral(passed, key) == key \in DOMAIN passed /\ ~passed[key].callable

Dependency(A, a, B, t) ==
  /\ a \in TypesOf(A) \cap MessageNames
  /\ t \in TypesOf(B) \ TypesOf(A)
  /\ \E f \in Range(MessageDescriptor[a].fields) :
       FieldDescriptor[f].type \in {"enum", "message"} /\ FieldDescriptor[f].ref = t

\* C2: the names in the returned environment are those declared by the set
\* of supplied modules, whatever their order, so both orders of two
\* modules A and B give the same entries; and with a message of A
\* referring to a type of B, both are among them.
C2_OrderIndependent ==
  pc = "done"
    => /\ EnvNames = UNION {TypesOf(m) : m \in Supplied}
       /\ \A A \in Supplied, B \in Supplied :
            \A a \in MessageNames, t \in MessageNames \cup EnumNames :
              Dependency(A, a, B, t) => a \in EnvNames /\ t \in EnvNames

C2_Witness ==
  /\ pc = "done"
  /\ modules = <<"dep", "im">>
  /\ Dependency("dep", "dep.DepMessage", "im", "im.User")
  /\ "dep.DepMessage" \in EnvNames
  /\ "im.User" \in EnvNames

\* Iterations of the inner loop of modules_to_strategies still to run.
Remaining ==
  IF pc = "loop" /\ pass <= total_modules
    THEN (total_modules - pass) * total_modules + (total_modules - idx) + 1
    ELSE 0

\* C3: modules_to_strategies terminates (while it runs, an iteration or the
\* return is possible, and every iteration leaves fewer to run), and the
\* environment it returns holds, for every self-referencing message type of
\* the supplied modules, the deferred strategy, whose fields were not
\* compiled.
C3_RecursiveTerminates ==
  /\ [](pc = "loop"
          => \/ pass = total_modules + 1
             \/ pass \in 1..total_modules /\ idx \in DOMAIN modules)
  /\ [][pc = "loop" => (pc' # "loop" \/ Remaining' < Remaining)]_vars
  /\ [](pc = "done"
          => \A m \in Supplied :
               \A r \in TypesOf(m) \cap SelfReferencing :
                 \E i \in DOMAIN env :
                   env[i].name = r /\ env[i].strategy = st_deferred(r))

C3_Witness ==
  /\ pc = "done"
  /\ "loop" \in Supplied
  /\ {"loop.Loop", "loop.A", "loop.B"} \subseteq SelfReferencing
  /\ example.message = "loop.Loop"
  /\ example.status = "ok"

C5_OptionalDrawsAbsent ==
  example.status = "ok"
    => \A j \in DOMAIN MessageDescriptor[example.message].fields :
         LET f == MessageDescriptor[example.message].fields[j]
             fd == FieldDescriptor[f]
         IN (fd.label = "optional" /\ f \notin DOMAIN overrides)
              => /\ None \in Values(example.strategies[j])
                 /\ (fd.type = "message" /\ MessageDescriptor[fd.ref].deprecated)
                      \/ Values(example.strategies[j]) # {None}
                 /\ <<f, None>> \in example.drawn
                      => ~\E kv \in example.kwargs : kv[1] = f

\* C6 (as claimed): every entry into field_to_strategy for a field the
\* caller's overrides name is made with those overrides, and a literal override of a map entry's key or value
\* field is the strategy the map field's dictionary draws from.
C6_OverridesThreaded ==
  /\ \A c \in example.calls :
       c.entity \in DOMAIN overrides => c.overrides = overrides
  /\ example.status = "ok"
       => \A j \in DOMAIN MessageDescriptor[example.message].fields :
            LET fd == FieldDescriptor[MessageDescriptor[example.message].fields[j]]
            IN (fd.type = "message" /\ MessageDescriptor[fd.ref].map_entry
                  /\ ~MessageDescriptor[fd.ref].deprecated)
                 => \A n \in 1..2 :
                      IsLiteral(overrides, MessageDescriptor[fd.ref].fields[n])
                        => example.strategies[j].subs[n].subs[1]
                             = overrides[MessageDescriptor[fd.ref].fields[n]].strategy

\* A reference field of the message that is not overridden, whose message
\* type is neither deprecated nor a map entry, and whose type has no entry.
UnresolvedReference(message) ==
  \E f \in Range(MessageDescriptor[message].fields) :
    /\ f \notin DOMAIN overrides
    /\ FieldDescriptor[f].type \in {"enum", "message"}
    /\ FieldDescriptor[f].type = "message"
         => /\ ~MessageDescriptor[FieldDescriptor[f].ref].deprecated
            /\ ~MessageDescriptor[FieldDescriptor[f].ref].map_entry
    /\ FieldDescriptor[f].ref \notin EnvNames

\* C7 (as claimed): a message type with a reference field whose type never
\* entered the environment is absent from the returned environment.
C7_UnresolvedAbsent ==
  pc = "done"
    => \A m \in Supplied :
         \A a \in TypesOf(m) \cap MessageNames :
           UnresolvedReference(a) => a \notin EnvNames

\* C8: a load of a module that nests messages beyond the depth bound ends
\* modules_to_strategies with the exception: nothing catches it, no pass or
\* module follows, and no environment is returned.
C8_DepthExceededRaises ==
  [][/\ (/\ pc = "loop"
         /\ pass <= total_modules
         /\ ~module_loaded_get(modules[idx])
         /\ ~WithinDepth(modules[idx]))
          => pc' = "raised"
     /\ pc = "raised"
          => /\ pc' = "raised"
             /\ UNCHANGED <<pass, idx, env, module_loaded, next_id, example>>]_vars

C8_Witness ==
  /\ pc = "raised"
  /\ modules = <<"im", "deep5">>
  /\ module_loaded_get("im")
  /\ "deep5.L1.L2.L3.L4" \notin EnvNames

AllSiblingsLoaded(module, e) ==
  \A m \in Range(ModuleDescriptor[module].message_types) :
    \E i \in DOMAIN e : e[i].name = m

\* C9 (as claimed): the value recorded for a module's load is whether all
\* its top-level message types are loaded, and a module is loaded again
\* only if its previous load left one of them unloaded.
C9_ReturnsAllLoaded ==
  [][/\ \A m \in DOMAIN module_loaded' :
          module_loaded'[m] = AllSiblingsLoaded(m, env')
     /\ (/\ pc = "loop"
         /\ pass <= total_modules
         /\ modules[idx] \in DOMAIN module_loaded
         /\ <<env, module_loaded, next_id>> # <<env', module_loaded', next_id'>>)
          => ~AllSiblingsLoaded(modules[idx], env)]_vars

\* C10 (as claimed): the environment never holds two entries with the same
\* full_name.
C10_WriteOnce ==
  \A i \in DOMAIN env, j \in DOMAIN env :
    env[i].name = env[j].name => i = j
====
